---- MODULE Spec2Model ----
(***************************************************************************)
(* State-machine model of the PiSSM repository (NCLT, unknown dynamics):   *)
(*   - SystemModel (NCLTSysModel.py): the trajectory simulator;            *)
(*   - PiSSM (PiSSM.py): constructor, call, reinforce_loss, training and   *)
(*     testing loops.                                                      *)
(* Tensors are records [shape, data] over bounded integers; Python         *)
(* exceptions are explicit terminal positions of the program counter.      *)
(***************************************************************************)
EXTENDS Integers, Sequences, FiniteSets, TLC

(***************************************************************************)
(* Bounds of the model and configuration values imported from parameters.  *)
(***************************************************************************)
MaxSteps == 5
MaxRandomDraws == 1
MaxCells == 4
MaxData == 3
MaxBatchSize == 2
MaxEpochs == 2
MaxRatio == 3

m == 2
n == 1
variance == 2

SweVals == {0, 3}
LogpVals == {-1, -2}
ShiftVals == {0, 2}
NoiseVals == {0, 1}
QVals == {0, 1}
RVals == {0, 1}
FNames == {"identity", "cv"}
HNames == {"first"}
InitData == {<<1, 0>>, <<1, 1>>}
InitShapes == {<<m>>, <<m, 1>>}

\* an array entry not yet written, and a tensor attribute not yet set
Empty == <<>>
NoTensor == [shape |-> <<>>, data |-> <<>>]

(***************************************************************************)
(* SystemModel: state.                                                     *)
(***************************************************************************)
VARIABLES
    simPc,          \* position: "idle", or "gen" inside GenerateSequence
    f, h, q, r,     \* self.f, self.h, self.q, self.r
    m1x_0, m2x_0,   \* self.m1x_0, self.m2x_0
    x, y, x_prev,   \* self.x, self.y, self.x_prev
    Input, Target,  \* self.Input, self.Target
    size, T, randomInit, initConditions, i, t,  \* GenerateBatch / GenerateSequence locals
    randomLeft,     \* remaining random draws that come out non-zero
    starts,         \* history: x_prev at the entry of each GenerateSequence of this call
    m1x0AtCall      \* history: self.m1x_0 when GenerateBatch was called

(***************************************************************************)
(* PiSSM: the object built by __init__ and the outcome of the last call.   *)
(***************************************************************************)
VARIABLES
    mPc,            \* "new" before __init__, then "built" or "raised"
    cell_type, never_invalid, output_dim,   \* constructor arguments
    overrides,      \* whether the subclass implements the build_* hooks
    ld_output,      \* self._ld_output
    cell,           \* self._cell: "none", "gin", "lstm" or "gru"
    exc,            \* the exception the constructor raised, or "none"
    inputs,         \* the argument of the last call
    encRun,         \* whether the last call evaluated the encoder layers
    rkn_in,         \* what the last call passed to the transition layer
    callOut         \* how the last call ended

modelVars == <<mPc, cell_type, never_invalid, output_dim, overrides, ld_output,
               cell, exc, inputs, encRun, rkn_in, callOut>>

(***************************************************************************)
(* PiSSM.reinforce_loss: the tensors it is run on and its result.          *)
(***************************************************************************)
VARIABLES
    lossPc,             \* "ready", "done", "shifted", "done2"
    sample_wise_error,  \* the [batch, T] tensor of line 170
    logp_list,          \* the [batch, T, 1] log-probabilities
    lossOut,            \* the value reinforce_loss returned last, a fraction
    baseOut,            \* history: the value returned before the rewards were shifted
    shift               \* history: the constants added to the rewards, one per time step

lossVars == <<lossPc, sample_wise_error, logp_list, lossOut, baseOut, shift>>

(***************************************************************************)
(* PiSSM.training and PiSSM.testing: arguments, locals, position.          *)
(***************************************************************************)
VARIABLES
    loopFn,         \* the method running: "none", "training" or "testing"
    trPc,           \* "idle", "epochs", "batches", "returned" or "raised"
    lexc,           \* the exception raised, or "none"
    nTarget, nObs,  \* len(Train_Target), len(Train_Obs) (test_targets, test_obs)
    nValidTarget, nValidObs,    \* len(Valid_Target), len(Valid_Obs)
    batch_size, epochs, ratio,  \* arguments
    modelKind,      \* what model(NetIn) returns: "pair" (PiSSM.call) or "tensor"
    nYbatch, nUbatch, nYbatch_val, nUbatch_val,  \* lengths of the batched arrays
    epoch, bi,      \* loop variables epoch and i
    loss,           \* the local variable loss: [bound, val]
    loss_show_tr,   \* the local variable loss_show_tr
    reinforce_loss, phi_loss,   \* the losses computed last
    mbTrace,        \* history: forward passes and updates of the last mini-batch, in order
    totals,         \* history: phi_loss + reinforce_loss of the mini-batches that reached line 277
    nanSeen,        \* history: whether a loss of this call was NaN
    Training_Loss,  \* the loss history
    Test_Loss, Test_loss_show, Test_loss_show_arr

loopVars == <<loopFn, trPc, lexc, nTarget, nObs, nValidTarget, nValidObs, batch_size,
              epochs, ratio, modelKind, nYbatch, nUbatch, nYbatch_val, nUbatch_val,
              epoch, bi, loss, loss_show_tr, reinforce_loss, phi_loss, mbTrace, totals, nanSeen,
              Training_Loss, Test_Loss, Test_loss_show, Test_loss_show_arr>>

simVars == <<simPc, f, h, q, r, m1x_0, m2x_0, x, y, x_prev, Input, Target,
             size, T, randomInit, initConditions, i, t, randomLeft,
             starts, m1x0AtCall>>

vars == <<simVars, modelVars, lossVars, loopVars>>

(***************************************************************************)
(* Tensor helpers.                                                         *)
(***************************************************************************)
Tensor(shape, data) == [shape |-> shape, data |-> data]

Zeros(dim) == Tensor(<<dim>>, [k \in 1..dim |-> 0])

\* torch.squeeze: drops every dimension of size 1, the data are kept
squeeze(a) == Tensor(SelectSeq(a.shape, LAMBDA d : d # 1), a.data)

\* torch.add on two tensors of the same shape
TorchAdd(a, b) == Tensor(a.shape, [k \in 1..Len(a.data) |-> a.data[k] + b.data[k]])

\* torch.normal(mean = zeros(dim), std = s): std 0 returns the mean itself
Normal(dim, s) ==
    {TorchAdd(Zeros(dim), Tensor(<<dim>>, [k \in 1..dim |-> s * e[k]])) : e \in [1..dim -> NoiseVals]}

\* torch.rand_like(a) * variance: same shape as a, values on the grid of [0, variance)
RandLike(a) == {Tensor(a.shape, d) : d \in [1..Len(a.data) -> 0..(variance - 1)]}

\* the user-supplied motion model f
\* ("identity", or "cv": position advanced by the velocity)
ApplyF(name, a) ==
    IF name = "identity" THEN a
    ELSE Tensor(a.shape, <<a.data[1] + a.data[2], a.data[2]>>)

\* the user-supplied observation model h: projection on the first coordinate
ApplyH(name, a) == Tensor(<<n>>, <<a.data[1]>>)

\* f applied k times
RECURSIVE FIter(_, _, _)
FIter(name, k, a) == IF k = 0 THEN a ELSE ApplyF(name, FIter(name, k - 1, a))

(***************************************************************************)
(* PiSSM.__init__.                                                         *)
(***************************************************************************)
\* str.lower on one character
LowerChar(c) ==
    CASE c = "G" -> "g" [] c = "I" -> "i" [] c = "N" -> "n" [] c = "L" -> "l"
      [] c = "S" -> "s" [] c = "T" -> "t" [] c = "M" -> "m" [] c = "R" -> "r"
      [] c = "U" -> "u" [] c = "K" -> "k" [] OTHER -> c

\* str.lower: a string is the sequence of its characters
lower(str) == [k \in 1..Len(str) |-> LowerChar(str[k])]

GIN == <<"g", "i", "n">>
LSTM == <<"l", "s", "t", "m">>
GRU == <<"g", "r", "u">>
RKN == <<"r", "k", "n">>

\* the values of cell_type the constructor is tried with
CellTypeArgs ==
    {GIN, <<"G", "I", "N">>, <<"G", "i", "n">>, LSTM, <<"L", "S", "T", "M">>,
     GRU, <<"G", "r", "u">>, RKN, <<"R", "K", "N">>, <<"r", "n", "n">>, <<>>}

\* the values of output_dim: a scalar, or the shape of an image
OutputDimArgs == {<<"scalar", 2>>, <<"shape", <<2, 2, 1>>>>}

\* the cell the if / elif chain builds, "none" when it falls to the else branch
BuiltCell(ct) ==
    IF lower(ct) = GIN THEN "gin"
    ELSE IF lower(ct) = LSTM THEN "lstm"
    ELSE IF lower(ct) = GRU THEN "gru"
    ELSE "none"

\* the cell-type names quoted in the AssertionError message
ErrorMessageNames == {RKN, LSTM, GRU}

ModelIdle ==
    /\ mPc = "new"
    /\ cell_type = <<>>
    /\ never_invalid = FALSE
    /\ output_dim = <<"scalar", 2>>
    /\ overrides = FALSE
    /\ ld_output = FALSE
    /\ cell = "none"
    /\ exc = "none"
    /\ inputs = [kind |-> "none", items |-> <<>>]
    /\ encRun = FALSE
    /\ rkn_in = [obs_valid |-> <<>>]
    /\ callOut = "none"

PiSSM_init ==
    /\ mPc = "new"
    /\ \E ct \in CellTypeArgs, ni \in BOOLEAN, od \in OutputDimArgs, ov \in BOOLEAN :
          /\ cell_type' = ct
          /\ never_invalid' = ni
          /\ output_dim' = od
          /\ overrides' = ov
          /\ ld_output' = (od[1] = "scalar")
          /\ IF ~ov
             THEN \* build_encoder_hidden is not implemented
                  /\ cell' = "none" /\ exc' = "NotImplementedError" /\ mPc' = "raised"
             ELSE IF BuiltCell(ct) = "none"
             THEN /\ cell' = "none" /\ exc' = "AssertionError" /\ mPc' = "raised"
             ELSE /\ cell' = BuiltCell(ct) /\ exc' = "none" /\ mPc' = "built"
    /\ UNCHANGED <<inputs, encRun, rkn_in, callOut>>
    /\ UNCHANGED <<simVars, lossVars, loopVars>>

(***************************************************************************)
(* PiSSM.call.                                                             *)
(***************************************************************************)
\* the shapes [batch, time] of the tensors the model is run on
Shapes == {sh \in (1..MaxCells) \X (1..MaxCells) : sh[1] * sh[2] <= MaxCells}

\* an observation tensor, of which only the shape [batch, time, ...] matters
Images == {[batch |-> sh[1], steps |-> sh[2]] : sh \in Shapes}

\* the validity masks of shape [batch, time, 1] that go with an image
Masks(img) == [1..img.batch -> [1..img.steps -> {<<0>>, <<1>>}]]

\* tf.ones([batch, time, 1])
Ones(img) == [b \in 1..img.batch |-> [s \in 1..img.steps |-> <<1>>]]

\* the arguments call is tried with: a bare tensor, or a tuple or list of one,
\* two or three items
CallInputs ==
    {[kind |-> "tensor", items |-> <<img>>] : img \in Images}
    \cup UNION {{[kind |-> k, items |-> <<img, mk>>] :
                     k \in {"tuple", "list"}, mk \in Masks(img)} : img \in Images}
    \cup {[kind |-> "tuple", items |-> <<img>>] : img \in Images}
    \cup {[kind |-> "list", items |-> <<img, Ones(img), Ones(img)>>] : img \in Images}

\* isinstance(inputs, tuple) or isinstance(inputs, list)
IsTupleOrList(inp) == inp.kind \in {"tuple", "list"}

\* lines 107-112: the validity mask the call goes on with
ObsValid(inp) ==
    IF IsTupleOrList(inp) THEN inp.items[2] ELSE Ones(inp.items[1])

\* The assertion on never_invalid is not made
CallEntry_noassert(inp) == IF IsTupleOrList(inp) /\ Len(inp.items) # 2 THEN "ValueError" ELSE "ok"

\* lines 107-112: how the head of call ends: "ok", or the exception raised
CallEntry(inp) ==
    IF IsTupleOrList(inp)
    THEN IF Len(inp.items) = 2 THEN "ok" ELSE "ValueError"
    ELSE IF never_invalid THEN "ok" ELSE "AssertionError"

\* lines 121-133: how the call ends once the transition layer has run; the
\* output of a baseline cell is one tensor, which line 124 cannot unpack
CallExit ==
    IF cell = "gin"
    THEN IF ld_output THEN "mean_var, logp_list" ELSE "mean, logp_list"
    ELSE "UnpackError"

PiSSM_call ==
    /\ mPc = "built"
    /\ \E inp \in CallInputs :
          /\ inputs' = inp
          /\ IF CallEntry(inp) = "ok"
             THEN /\ encRun' = TRUE
                  /\ rkn_in' = [obs_valid |-> ObsValid(inp)]
                  /\ callOut' = CallExit
             ELSE /\ encRun' = FALSE
                  /\ rkn_in' = [obs_valid |-> <<>>]
                  /\ callOut' = CallEntry(inp)
    /\ UNCHANGED <<mPc, cell_type, never_invalid, output_dim, overrides, ld_output,
                   cell, exc>>
    /\ UNCHANGED <<simVars, lossVars, loopVars>>

ModelNext ==
    \/ PiSSM_init
    \/ PiSSM_call

(***************************************************************************)
(* PiSSM.reinforce_loss, in exact arithmetic: a value is a fraction        *)
(* <<numerator, denominator>> in lowest terms.                             *)
(***************************************************************************)
Abs(a) == IF a < 0 THEN -a ELSE a

RECURSIVE GCD(_, _)
GCD(a, b) == IF b = 0 THEN a ELSE GCD(b, a % b)

Frac(a, b) ==
    LET g == GCD(Abs(a), Abs(b))
        sg == IF b < 0 THEN -1 ELSE 1
    IN  <<sg * (a \div g), sg * (b \div g)>>

Rat(a) == <<a, 1>>
RatAdd(u, v) == Frac(u[1] * v[2] + v[1] * u[2], u[2] * v[2])
RatSub(u, v) == Frac(u[1] * v[2] - v[1] * u[2], u[2] * v[2])
RatMul(u, v) == Frac(u[1] * v[1], u[2] * v[2])
RatNeg(u) == <<-u[1], u[2]>>
RatDivInt(u, k) == Frac(u[1], u[2] * k)

RECURSIVE SumInts(_)
SumInts(sq) == IF sq = <<>> THEN 0 ELSE sq[1] + SumInts(Tail(sq))

RECURSIVE SumRats(_)
SumRats(sq) == IF sq = <<>> THEN Rat(0) ELSE RatAdd(sq[1], SumRats(Tail(sq)))

\* The mean is taken along the time axis, one value per sequence
Baseline_time(reward) ==
    LET B == Len(reward)
        TT == Len(reward[1])
    IN  [b \in 1..B |-> [s \in 1..TT |-> RatDivInt(Rat(SumInts(reward[b])), TT)]]

\* lines 176-178: the mean of the reward over the batch at each time step,
\* tiled over the batch
Baseline(reward) ==
    LET B == Len(reward)
        TT == Len(reward[1])
        mean == [s \in 1..TT |-> RatDivInt(Rat(SumInts([b \in 1..B |-> reward[b][s]])), B)]
    IN  [b \in 1..B |-> mean]

\* line 173: the reward is minus the sample-wise error of line 170
Reward(swe) ==
    [b \in 1..Len(swe) |-> [s \in 1..Len(swe[1]) |-> -swe[b][s]]]

\* The reward is used as it is, no baseline is subtracted
Advantages_raw(swe) ==
    [b \in 1..Len(swe) |-> [s \in 1..Len(swe[1]) |-> Rat(Reward(swe)[b][s])]]

\* line 183: reward - baseline
Advantages(swe) ==
    LET reward == Reward(swe)
        baseline == Baseline(reward)
    IN  [b \in 1..Len(swe) |-> [s \in 1..Len(swe[1]) |->
            RatSub(Rat(reward[b][s]), baseline[b][s])]]

\* lines 173-184, on the sample-wise error of line 170
ReinforceLoss(swe, lp) ==
    LET B == Len(swe)
        TT == Len(swe[1])
        advantages == Advantages(swe)
        logps == [b \in 1..B |-> [s \in 1..TT |-> lp[b][s][1]]]
        reinforce_term ==
            [b \in 1..B |-> [s \in 1..TT |->
                RatNeg(RatMul(advantages[b][s], Rat(logps[b][s])))]]
    IN  RatDivInt(SumRats([b \in 1..B |-> SumRats(reinforce_term[b])]), B * TT)

LossIdle ==
    /\ lossPc = "ready"
    /\ sample_wise_error = <<<<0>>>>
    /\ logp_list = <<<<<<-1>>>>>>
    /\ lossOut = Rat(0)
    /\ baseOut = Rat(0)
    /\ shift = <<>>

LossInit ==
    /\ lossPc = "ready"
    /\ \E sh \in Shapes :
          /\ sample_wise_error \in [1..sh[1] -> [1..sh[2] -> SweVals]]
          /\ logp_list \in [1..sh[1] -> [1..sh[2] -> {<<v>> : v \in LogpVals}]]
    /\ lossOut = Rat(0)
    /\ baseOut = Rat(0)
    /\ shift = <<>>

\* reinforce_loss is evaluated on the current tensors
ReinforceLoss_Call ==
    /\ lossPc \in {"ready", "shifted"}
    /\ lossOut' = ReinforceLoss(sample_wise_error, logp_list)
    /\ lossPc' = IF lossPc = "ready" THEN "done" ELSE "done2"
    /\ UNCHANGED <<sample_wise_error, logp_list, baseOut, shift>>
    /\ UNCHANGED <<simVars, modelVars, loopVars>>

\* the reward (minus the sample-wise error) at time step s is raised by c[s]
ShiftRewards ==
    /\ lossPc = "done"
    /\ \E c \in [1..Len(sample_wise_error[1]) -> ShiftVals] :
          /\ shift' = c
          /\ sample_wise_error' =
                [b \in 1..Len(sample_wise_error) |->
                    [s \in 1..Len(sample_wise_error[1]) |-> sample_wise_error[b][s] - c[s]]]
    /\ baseOut' = lossOut
    /\ lossPc' = "shifted"
    /\ UNCHANGED <<logp_list, lossOut>>
    /\ UNCHANGED <<simVars, modelVars, loopVars>>

LossNext ==
    \/ ReinforceLoss_Call
    \/ ShiftRewards

(***************************************************************************)
(* PiSSM.training.  A loss is [nan, v]; a local variable is [bound, val].  *)
(***************************************************************************)
NaN == [nan |-> TRUE, v |-> 0]
Num(a) == [nan |-> FALSE, v |-> a]
LossAdd(a, b) == IF a.nan \/ b.nan THEN NaN ELSE Num(a.v + b.v)

\* the values a forward pass may give a loss
LossVals == {Num(1), Num(2), NaN}

Unbound == [bound |-> FALSE, val |-> Num(0)]
Bound(a) == [bound |-> TRUE, val |-> a]

\* the variables of the model, and those of the coefficient network of its cell
TrainableVariables == {"enc", "w_mean", "w_covar", "coef_kernel", "coef_bias", "basis", "dec", "var_dec"}
CoefficientNetWeights == {"coef_kernel", "coef_bias"}

\* line 250: dynamic_variables; line 265: phi_vars
dynamic_variables == CoefficientNetWeights
phi_vars == {v \in TrainableVariables : \A d \in dynamic_variables : v # d}

\* one event of a mini-batch: a forward pass, or an optimizer step on a set of variables
Forward == [step |-> "forward", on |-> {}]
Update(name, on) == [step |-> name, on |-> on]

LoopIdle ==
    /\ loopFn = "none"
    /\ trPc = "idle"
    /\ lexc = "none"
    /\ nTarget = 0 /\ nObs = 0 /\ nValidTarget = 0 /\ nValidObs = 0
    /\ batch_size = 0 /\ epochs = 0 /\ ratio = 0
    /\ modelKind = "pair"
    /\ nYbatch = 0 /\ nUbatch = 0 /\ nYbatch_val = 0 /\ nUbatch_val = 0
    /\ epoch = 0 /\ bi = 0
    /\ loss = Unbound
    /\ loss_show_tr = Num(0)
    /\ reinforce_loss = Num(0) /\ phi_loss = Num(0)
    /\ mbTrace = <<>>
    /\ totals = <<>>
    /\ nanSeen = FALSE
    /\ Training_Loss = <<>>
    /\ Test_Loss = <<>> /\ Test_loss_show = Num(0) /\ Test_loss_show_arr = <<>>

\* lines 205-233: the call and the batching; batch_size 0 divides by zero
Training_Call ==
    /\ trPc = "idle"
    /\ \E nt \in 0..MaxData, no \in 0..MaxData, nvt \in {0, MaxData}, nvo \in {0, MaxData},
          bs \in 0..MaxBatchSize, ep \in 0..MaxEpochs, ra \in 1..MaxRatio :
          /\ nTarget' = nt /\ nObs' = no /\ nValidTarget' = nvt /\ nValidObs' = nvo
          /\ batch_size' = bs /\ epochs' = ep /\ ratio' = ra
          /\ IF bs = 0
             THEN /\ trPc' = "raised" /\ lexc' = "ZeroDivisionError"
                  /\ UNCHANGED <<nYbatch, nUbatch, nYbatch_val, nUbatch_val>>
             ELSE /\ trPc' = "epochs" /\ lexc' = "none"
                  /\ nYbatch_val' = nvt \div bs
                  /\ nUbatch_val' = nvo \div bs
                  /\ nYbatch' = nt \div bs
                  /\ nUbatch' = no \div bs
    /\ loopFn' = "training"
    /\ Training_Loss' = <<>>
    /\ epoch' = 0
    /\ UNCHANGED <<modelKind, bi, loss, loss_show_tr, reinforce_loss, phi_loss, mbTrace,
                   totals, nanSeen, Test_Loss, Test_loss_show, Test_loss_show_arr>>
    /\ UNCHANGED <<simVars, modelVars, lossVars>>

\* lines 234-236: the head of the loop over the epochs
Training_Epoch ==
    /\ loopFn = "training" /\ trPc = "epochs"
    /\ epoch < epochs
    /\ loss_show_tr' = Num(0)
    /\ bi' = 0
    /\ trPc' = "batches"
    /\ UNCHANGED <<loopFn, lexc, nTarget, nObs, nValidTarget, nValidObs, batch_size,
                   epochs, ratio, modelKind, nYbatch, nUbatch, nYbatch_val, nUbatch_val,
                   epoch, loss, reinforce_loss, phi_loss, mbTrace, totals, nanSeen,
                   Training_Loss, Test_Loss, Test_loss_show, Test_loss_show_arr>>
    /\ UNCHANGED <<simVars, modelVars, lossVars>>

\* the outcome of one pass of the body of the loop over the mini-batches
\* (lines 239-300), for the losses rl and pl the two forward passes give:
\* how it ends ("next", "break" or the exception), and the locals after it
Outcome(end, l, show, tr, hist) ==
    [end |-> end, loss |-> l, loss_show_tr |-> show, mbTrace |-> tr, Training_Loss |-> hist]

MiniBatch(idx, l, show, hist, rl, pl) ==
    IF idx >= nUbatch
    THEN \* line 239: Ubatch[i]
         Outcome("IndexError", l, show, <<>>, hist)
    ELSE IF ~l.bound
    THEN \* line 244: loss is read before line 277 has assigned it
         Outcome("UnboundLocalError", l, show, <<Forward>>, hist)
    ELSE IF rl.nan
    THEN \* line 248
         Outcome("break", l, LossAdd(show, l.val), <<Forward>>, hist)
    ELSE IF pl.nan
    THEN \* line 262
         Outcome("break", l, LossAdd(show, l.val),
                 <<Forward, Update("reinforce", dynamic_variables), Forward>>, hist)
    ELSE IF idx % 10 = 0
    THEN \* line 270: Valid_Ubatch is not defined
         Outcome("NameError", l, LossAdd(show, l.val),
                 <<Forward, Update("reinforce", dynamic_variables), Forward,
                   Update("nll", phi_vars)>>, hist)
    ELSE IF ratio - 1 = 0
    THEN \* line 295: i % (ratio - 1)
         Outcome("ZeroDivisionError", Bound(LossAdd(pl, rl)), LossAdd(show, l.val),
                 <<Forward, Update("reinforce", dynamic_variables), Forward,
                   Update("nll", phi_vars)>>, hist)
    ELSE LET total == LossAdd(pl, rl)
             kept == IF idx % (ratio - 1) = 0 /\ idx # 0 THEN Num(0) ELSE total
         IN  Outcome("next", Bound(kept), LossAdd(show, l.val),
                     <<Forward, Update("reinforce", dynamic_variables), Forward,
                       Update("nll", phi_vars)>>,
                     Append(hist, [num |-> kept, den |-> batch_size]))

\* lines 237-300: one mini-batch
Training_MiniBatch ==
    /\ loopFn = "training" /\ trPc = "batches"
    /\ bi < nYbatch
    /\ \E rl \in LossVals, pl \in LossVals :
          LET o == MiniBatch(bi, loss, loss_show_tr, Training_Loss, rl, pl)
          IN  /\ reinforce_loss' = rl
              /\ phi_loss' = IF Len(o.mbTrace) >= 3 THEN pl ELSE phi_loss
              /\ loss' = o.loss
              /\ loss_show_tr' = o.loss_show_tr
              /\ mbTrace' = o.mbTrace
              /\ Training_Loss' = o.Training_Loss
              /\ totals' = IF o.end = "next" THEN Append(totals, LossAdd(pl, rl)) ELSE totals
              /\ nanSeen' = (nanSeen \/ rl.nan \/ (Len(o.mbTrace) >= 3 /\ pl.nan))
              /\ IF o.end = "next"
                 THEN /\ bi' = bi + 1 /\ UNCHANGED <<trPc, lexc, epoch>>
                 ELSE IF o.end = "break"
                 THEN /\ epoch' = epoch + 1 /\ trPc' = "epochs" /\ UNCHANGED <<bi, lexc>>
                 ELSE /\ trPc' = "raised" /\ lexc' = o.end /\ UNCHANGED <<bi, epoch>>
    /\ UNCHANGED <<loopFn, nTarget, nObs, nValidTarget, nValidObs, batch_size,
                   epochs, ratio, modelKind, nYbatch, nUbatch, nYbatch_val, nUbatch_val,
                   Test_Loss, Test_loss_show, Test_loss_show_arr>>
    /\ UNCHANGED <<simVars, modelVars, lossVars>>

\* the loop over the mini-batches is exhausted: the next epoch
Training_EpochEnd ==
    /\ loopFn = "training" /\ trPc = "batches"
    /\ bi = nYbatch
    /\ epoch' = epoch + 1
    /\ trPc' = "epochs"
    /\ UNCHANGED <<loopFn, lexc, nTarget, nObs, nValidTarget, nValidObs, batch_size,
                   epochs, ratio, modelKind, nYbatch, nUbatch, nYbatch_val, nUbatch_val,
                   bi, loss, loss_show_tr, reinforce_loss, phi_loss, mbTrace, totals, nanSeen,
                   Training_Loss, Test_Loss, Test_loss_show, Test_loss_show_arr>>
    /\ UNCHANGED <<simVars, modelVars, lossVars>>

\* line 301
Training_Return ==
    /\ loopFn = "training" /\ trPc = "epochs"
    /\ epoch >= epochs
    /\ trPc' = "returned"
    /\ UNCHANGED <<loopFn, lexc, nTarget, nObs, nValidTarget, nValidObs, batch_size,
                   epochs, ratio, modelKind, nYbatch, nUbatch, nYbatch_val, nUbatch_val,
                   epoch, bi, loss, loss_show_tr, reinforce_loss, phi_loss, mbTrace, totals, nanSeen,
                   Training_Loss, Test_Loss, Test_loss_show, Test_loss_show_arr>>
    /\ UNCHANGED <<simVars, modelVars, lossVars>>

(***************************************************************************)
(* PiSSM.testing.                                                          *)
(***************************************************************************)
\* lines 303-317: the call and the batching, with batch_size set to 1
Testing_Call ==
    /\ trPc = "idle"
    /\ \E nt \in 0..MaxData, no \in 0..MaxData, bs \in 0..MaxBatchSize,
          ra \in 1..MaxRatio, mk \in {"pair", "tensor"} :
          /\ nTarget' = nt /\ nObs' = no
          /\ batch_size' = 1 /\ ratio' = ra
          /\ modelKind' = mk
          /\ nYbatch' = nt \div 1
          /\ nUbatch' = no \div 1
    /\ loopFn' = "testing"
    /\ trPc' = "batches"
    /\ bi' = 0
    /\ Test_Loss' = <<>>
    /\ Test_loss_show' = Num(0)
    /\ Test_loss_show_arr' = <<>>
    /\ UNCHANGED <<lexc, nValidTarget, nValidObs, epochs, nYbatch_val, nUbatch_val,
                   epoch, loss, loss_show_tr, reinforce_loss, phi_loss, mbTrace, totals, nanSeen,
                   Training_Loss>>
    /\ UNCHANGED <<simVars, modelVars, lossVars>>

\* the outcome of one pass of the body of the loop (lines 319-329) for the
\* loss l that rmse gives: how it ends, and the locals after it
TestOutcome(end, hist, show, arr) ==
    [end |-> end, Test_Loss |-> hist, Test_loss_show |-> show, Test_loss_show_arr |-> arr]

TestBatch(idx, hist, show, arr, l) ==
    IF idx >= nUbatch
    THEN \* line 319: Ubatch[i]
         TestOutcome("IndexError", hist, show, arr)
    ELSE IF modelKind = "pair"
    THEN \* line 321: rmse slices preds, the pair that PiSSM.call returns
         TestOutcome("TypeError", hist, show, arr)
    ELSE IF ratio - 1 = 0
    THEN \* line 326: i % (ratio - 1)
         TestOutcome("ZeroDivisionError", Append(hist, l), LossAdd(show, l), arr)
    ELSE IF idx % (ratio - 1) = 0 /\ idx # 0
    THEN TestOutcome("next", Append(hist, l), Num(0), Append(arr, LossAdd(show, l)))
    ELSE TestOutcome("next", Append(hist, l), LossAdd(show, l), arr)

\* lines 318-329: one test example
Testing_Batch ==
    /\ loopFn = "testing" /\ trPc = "batches"
    /\ bi < nYbatch
    /\ \E l \in LossVals :
          LET o == TestBatch(bi, Test_Loss, Test_loss_show, Test_loss_show_arr, l)
          IN  /\ Test_Loss' = o.Test_Loss
              /\ Test_loss_show' = o.Test_loss_show
              /\ Test_loss_show_arr' = o.Test_loss_show_arr
              /\ nanSeen' = (nanSeen \/ (Len(o.Test_Loss) > Len(Test_Loss) /\ l.nan))
              /\ IF o.end = "next"
                 THEN /\ bi' = bi + 1 /\ UNCHANGED <<trPc, lexc>>
                 ELSE /\ trPc' = "raised" /\ lexc' = o.end /\ UNCHANGED bi
    /\ UNCHANGED <<loopFn, nTarget, nObs, nValidTarget, nValidObs, batch_size,
                   epochs, ratio, modelKind, nYbatch, nUbatch, nYbatch_val, nUbatch_val,
                   epoch, loss, loss_show_tr, reinforce_loss, phi_loss, mbTrace, totals,
                   Training_Loss>>
    /\ UNCHANGED <<simVars, modelVars, lossVars>>

\* lines 331-332
Testing_Return ==
    /\ loopFn = "testing" /\ trPc = "batches"
    /\ bi >= nYbatch
    /\ trPc' = "returned"
    /\ UNCHANGED <<loopFn, lexc, nTarget, nObs, nValidTarget, nValidObs, batch_size,
                   epochs, ratio, modelKind, nYbatch, nUbatch, nYbatch_val, nUbatch_val,
                   epoch, bi, loss, loss_show_tr, reinforce_loss, phi_loss, mbTrace, totals, nanSeen,
                   Training_Loss, Test_Loss, Test_loss_show, Test_loss_show_arr>>
    /\ UNCHANGED <<simVars, modelVars, lossVars>>

LoopNext ==
    \/ Training_Call
    \/ Training_Epoch
    \/ Training_MiniBatch
    \/ Training_EpochEnd
    \/ Training_Return
    \/ Testing_Call
    \/ Testing_Batch
    \/ Testing_Return

(***************************************************************************)
(* SystemModel.__init__: the state after construction.                     *)
(***************************************************************************)
SimInit ==
    /\ simPc = "idle"
    /\ f \in FNames
    /\ h \in HNames
    /\ q \in QVals
    /\ r \in RVals
    /\ m1x_0 \in {Tensor(s, d) : s \in InitShapes, d \in InitData}
    /\ m2x_0 = Tensor(<<m, m>>, <<0, 0, 0, 0>>)
    /\ x = <<>>
    /\ y = <<>>
    /\ x_prev = NoTensor
    /\ Input = <<>>
    /\ Target = <<>>
    /\ size = 0
    /\ T = 0
    /\ randomInit = FALSE
    /\ initConditions = NoTensor
    /\ i = 0
    /\ t = 0
    /\ randomLeft = MaxRandomDraws
    /\ starts = <<>>
    /\ m1x0AtCall = NoTensor

(***************************************************************************)
(* SystemModel.GenerateSequence, one step of the loop body.                *)
(***************************************************************************)
\* State evolution with the wrong noise scale and no q == 0 branch
StateEvolution_r(xp) == {TorchAdd(ApplyF(f, xp), eq) : eq \in Normal(m, r)}

\* State evolution: xt = f(x_prev), plus process noise unless q == 0
StateEvolution(xp) ==
    IF q = 0 THEN {ApplyF(f, xp)}
    ELSE {TorchAdd(ApplyF(f, xp), eq) : eq \in Normal(m, q)}

\* Emission computed from the previous state instead of the current one
Emission_prev(xt) == {TorchAdd(ApplyH(h, x_prev), er) : er \in Normal(n, r)}

\* Emission: yt = h(xt) plus observation noise of scale r
Emission(xt) == {TorchAdd(ApplyH(h, xt), er) : er \in Normal(n, r)}

\* number of non-zero noise draws of one step
NoisyDraws(xp, xt, yt) ==
    (IF xt # ApplyF(f, xp) THEN 1 ELSE 0) + (IF yt # ApplyH(h, xt) THEN 1 ELSE 0)

GenerateSequence_Step ==
    /\ simPc = "gen"
    /\ t < T
    /\ \E xt \in StateEvolution(x_prev) :
         \E yt \in Emission(xt) :
            /\ NoisyDraws(x_prev, xt, yt) <= randomLeft
            /\ randomLeft' = randomLeft - NoisyDraws(x_prev, xt, yt)
            /\ x' = [x EXCEPT ![t + 1] = squeeze(xt).data]
            /\ y' = [y EXCEPT ![t + 1] = squeeze(yt).data]
            /\ x_prev' = xt
    /\ t' = t + 1
    /\ UNCHANGED <<simPc, f, h, q, r, m1x_0, m2x_0, Input, Target, size, T,
                   randomInit, initConditions, i, starts, m1x0AtCall>>
    /\ UNCHANGED <<modelVars, lossVars, loopVars>>

(***************************************************************************)
(* SystemModel.GenerateBatch.                                              *)
(***************************************************************************)
\* Initial conditions drawn at random whatever the flag says
InitConditionChoices_always(rI, prev) == RandLike(m1x_0)

\* the initial conditions of one trajectory: a fresh random draw shaped like
\* self.m1x_0 when randomInit, else unchanged
InitConditionChoices(rI, prev) ==
    IF rI THEN RandLike(m1x_0) ELSE {prev}

\* whether a draw of initial conditions came out non-zero
RandomDraws(rI, ic) ==
    IF rI /\ ic.data # [k \in 1..Len(ic.data) |-> 0] THEN 1 ELSE 0

\* InitSequence that uses the initial conditions without storing them in
\* self.m1x_0
BeginSequence_keep(rI, TT, ic, sofar) ==
    /\ RandomDraws(rI, ic) <= randomLeft
    /\ randomLeft' = randomLeft - RandomDraws(rI, ic)
    /\ initConditions' = ic
    /\ m1x_0' = m1x_0
    /\ m2x_0' = squeeze(m2x_0)
    /\ x' = [k \in 1..TT |-> Empty]
    /\ y' = [k \in 1..TT |-> Empty]
    /\ x_prev' = squeeze(ic)
    /\ t' = 0
    /\ starts' = Append(sofar, squeeze(ic))

\* InitSequence(initConditions, self.m2x_0), then the head of
\* GenerateSequence: allocation of x and y, x_prev = self.m1x_0
BeginSequence(rI, TT, ic, sofar) ==
    /\ RandomDraws(rI, ic) <= randomLeft
    /\ randomLeft' = randomLeft - RandomDraws(rI, ic)
    /\ initConditions' = ic
    /\ m1x_0' = squeeze(ic)
    /\ m2x_0' = squeeze(m2x_0)
    /\ x' = [k \in 1..TT |-> Empty]
    /\ y' = [k \in 1..TT |-> Empty]
    /\ x_prev' = squeeze(ic)
    /\ t' = 0
    /\ starts' = Append(sofar, squeeze(ic))

\* the arguments of a call: size * T steps in all, at most MaxSteps
CallArgs == {a \in (1..MaxSteps) \X (1..MaxSteps) : a[1] * a[2] <= MaxSteps}

\* GenerateBatch is called: allocation, then the first trajectory begins
GenerateBatch_Call ==
    /\ simPc = "idle"
    /\ \E a \in CallArgs, rI \in BOOLEAN :
          /\ size' = a[1]
          /\ T' = a[2]
          /\ randomInit' = rI
          /\ Input' = [k \in 1..a[1] |-> Empty]
          /\ Target' = [k \in 1..a[1] |-> Empty]
          /\ \E ic \in InitConditionChoices(rI, m1x_0) :
                BeginSequence(rI, a[2], ic, <<>>)
    /\ i' = 0
    /\ m1x0AtCall' = m1x_0
    /\ simPc' = "gen"
    /\ UNCHANGED <<f, h, q, r>>
    /\ UNCHANGED <<modelVars, lossVars, loopVars>>

\* a trajectory is complete: it is stored, and the next one begins
GenerateBatch_Next ==
    /\ simPc = "gen"
    /\ t = T
    /\ i + 1 < size
    /\ Input' = [Input EXCEPT ![i + 1] = y]
    /\ Target' = [Target EXCEPT ![i + 1] = x]
    /\ i' = i + 1
    /\ \E ic \in InitConditionChoices(randomInit, initConditions) :
          BeginSequence(randomInit, T, ic, starts)
    /\ UNCHANGED <<simPc, f, h, q, r, size, T, randomInit, m1x0AtCall>>
    /\ UNCHANGED <<modelVars, lossVars, loopVars>>

\* the last trajectory is complete: it is stored, and the batch is returned
GenerateBatch_Return ==
    /\ simPc = "gen"
    /\ t = T
    /\ i + 1 = size
    /\ Input' = [Input EXCEPT ![i + 1] = y]
    /\ Target' = [Target EXCEPT ![i + 1] = x]
    /\ i' = i + 1
    /\ simPc' = "idle"
    /\ UNCHANGED <<f, h, q, r, m1x_0, m2x_0, x, y, x_prev, size, T, randomInit,
                   initConditions, t, randomLeft, starts, m1x0AtCall>>
    /\ UNCHANGED <<modelVars, lossVars, loopVars>>

SimNext ==
    \/ GenerateBatch_Call
    \/ GenerateSequence_Step
    \/ GenerateBatch_Next
    \/ GenerateBatch_Return

\* the simulator left alone
SimIdle ==
    /\ SimInit
    /\ f = "identity" /\ h = "first" /\ q = 0 /\ r = 0
    /\ m1x_0 = Tensor(<<m, 1>>, <<1, 0>>)

SimSpecInit == SimInit /\ ModelIdle /\ LossIdle /\ LoopIdle

SimSpec == SimSpecInit /\ [][SimNext]_vars

ModelSpecInit == ModelIdle /\ SimIdle /\ LossIdle /\ LoopIdle

ModelSpec == ModelSpecInit /\ [][ModelNext]_vars

LossSpecInit == LossInit /\ SimIdle /\ ModelIdle /\ LoopIdle

LossSpec == LossSpecInit /\ [][LossNext]_vars

LoopSpecInit == LoopIdle /\ SimIdle /\ ModelIdle /\ LossIdle

LoopSpec == LoopSpecInit /\ [][LoopNext]_vars

(***************************************************************************)
(* Claims on the simulator.                                                *)
(***************************************************************************)
\* row j of a trajectory array stored as a sequence of columns
Row(a, j) == [k \in 1..Len(a) |-> a[k][j]]

\* C1: with q = 0 every stored state x[:, t] is f applied t+1 times to the
\* initial state m1x_0, whatever the observation noise; the same holds of the
\* trajectories already stored in Target.
C1_ZeroProcessNoiseIterates ==
    q = 0 =>
       /\ \A k \in 1..Len(x) :
             x[k] # Empty => x[k] = FIter(f, k, m1x_0).data
       /\ \A j \in 1..Len(Target) :
             Target[j] # Empty =>
                \A k \in 1..Len(Target[j]) :
                   Target[j][k] = FIter(f, k, starts[j]).data

\* C1 witness: q = 0, observation noise was drawn non-zero, and a trajectory of
\* three steps of the moving model is complete
C1_Witness ==
    /\ simPc = "idle" /\ size = 1 /\ T = 3
    /\ q = 0 /\ r = 1 /\ f = "cv"
    /\ starts = <<Tensor(<<m>>, <<1, 1>>)>>
    /\ Row(x, 1) = <<2, 3, 4>>
    /\ \E k \in 1..3 : y[k] # ApplyH(h, Tensor(<<m>>, x[k])).data

\* C2: in a call with randomInit = False every trajectory starts from the same
\* state, the m1x_0 held when GenerateBatch was called
C2_SharedInitialState ==
    (~randomInit /\ Len(starts) > 0) =>
       \A k \in 1..Len(starts) :
          /\ starts[k] = starts[1]
          /\ starts[k].data = m1x0AtCall.data

\* C2 witness: a returned batch of two trajectories that differ by their
\* noise and started from the same state
C2_Witness ==
    /\ simPc = "idle" /\ ~randomInit /\ size = 2 /\ Len(starts) = 2
    /\ m1x0AtCall.shape = <<m, 1>>
    /\ Target[1] # Target[2]

\* C3: with q = 0 and r = 0 the observation y[:, t] is h(x[:, t]) and
\* x[:, t] is f applied t+1 times to the initial state; for f = identity,
\* h = first coordinate, initial state [1, 0] and T = 5 the states are
\* [[1,1,1,1,1],[0,0,0,0,0]] and the observations [[1,1,1,1,1]].
C3_Deterministic ==
    (q = 0 /\ r = 0) =>
       /\ \A k \in 1..Len(x) :
             x[k] # Empty =>
                /\ x[k] = FIter(f, k, m1x_0).data
                /\ y[k] = ApplyH(h, FIter(f, k, m1x_0)).data
       /\ (/\ simPc = "idle" /\ size = 1 /\ T = 5
           /\ f = "identity" /\ h = "first"
           /\ starts = <<Tensor(<<m>>, <<1, 0>>)>>)
          => /\ Row(Target[1], 1) = <<1, 1, 1, 1, 1>>
             /\ Row(Target[1], 2) = <<0, 0, 0, 0, 0>>
             /\ Row(Input[1], 1) = <<1, 1, 1, 1, 1>>

\* C3 witness: the end-to-end scenario has run to its end
C3_Witness ==
    /\ simPc = "idle" /\ size = 1 /\ T = 5 /\ q = 0 /\ r = 0
    /\ f = "identity" /\ h = "first"
    /\ starts = <<Tensor(<<m>>, <<1, 0>>)>>
    /\ Len(Target[1]) = 5 /\ Len(Input[1]) = 5

\* the stored initial state is the initial condition of the trajectory begun
\* last, the random draw when randomInit
C11_StoredIsLastStart ==
    (starts # <<>>) =>
       /\ m1x_0 = starts[Len(starts)]
       /\ m1x_0 = squeeze(initConditions)

\* a call with randomInit = False begins from the initial condition of the
\* last trajectory of the call before it
C11_NextCallStartsFromIt ==
    (simPc = "idle" /\ simPc' = "gen" /\ ~randomInit' /\ starts # <<>>) =>
       starts'[1] = starts[Len(starts)]

\* no step of a call with randomInit = False changes the values of m1x_0
C11_PlainCallKeeps ==
    (~randomInit') => m1x_0'.data = m1x_0.data

\* C11: GenerateBatch overwrites self.m1x_0: it is the initial condition of the
\* last trajectory begun (the random draw when randomInit = True), a following
\* call with randomInit = False starts every trajectory from that value, and
\* calls with randomInit = False leave the values of m1x_0 as they were.
C11_OverwritesInitialState ==
    /\ [](C11_StoredIsLastStart /\ C2_SharedInitialState)
    /\ [][C11_NextCallStartsFromIt /\ C11_PlainCallKeeps]_vars

\* C11 witness: a call with randomInit = False has returned two trajectories
\* that both started from [0, 1], a value no model is configured with: the
\* draw of the last trajectory of an earlier call with randomInit = True
C11_Witness ==
    /\ simPc = "idle" /\ ~randomInit /\ size = 2 /\ i = 2
    /\ starts = <<Tensor(<<m>>, <<0, 1>>), Tensor(<<m>>, <<0, 1>>)>>
    /\ m1x0AtCall = Tensor(<<m>>, <<0, 1>>)
    /\ m1x_0.data \notin InitData

(***************************************************************************)
(* Claims on the PiSSM constructor, call and reinforce_loss.               *)
(***************************************************************************)
\* C7: a cell_type whose lower-cased value is not accepted makes the
\* constructor (of a subclass that implements the hooks) raise AssertionError
\* and build no cell, and the names the error message lists are exactly the
\* values the constructor accepts.
C7_MessageListsAcceptedTypes ==
    (mPc # "new" /\ overrides) =>
       /\ (lower(cell_type) \notin {GIN, LSTM, GRU}) =>
             (exc = "AssertionError" /\ cell = "none" /\ mPc = "raised")
       /\ (mPc = "built") <=> (lower(cell_type) \in ErrorMessageNames)

\* C8: a call without a mask fails with AssertionError before the encoder runs
\* unless never_invalid, and then goes on with a mask of ones; a call with a
\* pair (input, mask) passes that mask to the transition layer.
C8_ValidityMask ==
    (callOut # "none") =>
       /\ (~IsTupleOrList(inputs) /\ ~never_invalid) =>
             (callOut = "AssertionError" /\ ~encRun /\ rkn_in.obs_valid = <<>>)
       /\ (~IsTupleOrList(inputs) /\ never_invalid) =>
             /\ encRun
             /\ Len(rkn_in.obs_valid) = inputs.items[1].batch
             /\ \A b \in 1..inputs.items[1].batch :
                   /\ Len(rkn_in.obs_valid[b]) = inputs.items[1].steps
                   /\ \A k \in 1..inputs.items[1].steps : rkn_in.obs_valid[b][k] = <<1>>
       /\ (IsTupleOrList(inputs) /\ Len(inputs.items) = 2) =>
             (encRun /\ rkn_in.obs_valid = inputs.items[2])

\* C8 witness: a model built with never_invalid was called on a bare tensor of
\* two sequences of two steps and returned
C8_Witness ==
    /\ mPc = "built" /\ never_invalid /\ cell = "gin"
    /\ inputs.kind = "tensor" /\ inputs.items[1] = [batch |-> 2, steps |-> 2]
    /\ encRun /\ callOut = "mean_var, logp_list"
    /\ rkn_in.obs_valid = <<<<<<1>>, <<1>>>>, <<<<1>>, <<1>>>>>>

\* C9: adding to every reward of a time step a constant (one per time step,
\* the same over the batch) leaves the value of reinforce_loss unchanged.
C9_ShiftInvariant ==
    (lossPc = "done2") => (lossOut = baseOut)

\* C9 witness: two sequences of two steps, shifted by different constants at
\* the two steps, with a non-zero loss
C9_Witness ==
    /\ lossPc = "done2"
    /\ Len(sample_wise_error) = 2
    /\ shift = <<0, 2>>
    /\ lossOut # Rat(0)

\* C12: the advantages (reward - baseline) sum to zero over the batch at every
\* time step; for a batch of a single sequence the baseline equals the reward
\* at every step and the returned REINFORCE loss is exactly 0, whatever the
\* errors and the log-probabilities.
C12_AdvantagesSumToZero ==
    (lossPc \in {"done", "done2"}) =>
       LET B == Len(sample_wise_error)
           TT == Len(sample_wise_error[1])
           reward == Reward(sample_wise_error)
           adv == Advantages(sample_wise_error)
       IN  /\ \A s \in 1..TT : SumRats([b \in 1..B |-> adv[b][s]]) = Rat(0)
           /\ (B = 1) =>
                 /\ \A s \in 1..TT : Baseline(reward)[1][s] = Rat(reward[1][s])
                 /\ lossOut = Rat(0)

\* C12 witness: the loss of a single sequence of three steps with different
\* non-zero rewards and different log-probabilities has been computed
C12_Witness ==
    /\ lossPc = "done"
    /\ sample_wise_error = <<<<3, 0, 3>>>>
    /\ logp_list = <<<<<<-1>>, <<-2>>, <<-2>>>>>>
    /\ lossOut = Rat(0)

(***************************************************************************)
(* Claims on PiSSM.training and PiSSM.testing.                             *)
(***************************************************************************)
\* a mini-batch of training has run and no loss computed in it was NaN
MiniBatchRan ==
    /\ loopFn = "training"
    /\ mbTrace # <<>>
    /\ ~reinforce_loss.nan
    /\ (Len(mbTrace) >= 3) => ~phi_loss.nan

\* the variables updated by the steps of the last mini-batch named name
UpdatedBy(name) ==
    UNION {mbTrace[k].on : k \in {j \in 1..Len(mbTrace) : mbTrace[j].step = name}}

\* C4: in every mini-batch processed, the REINFORCE step updates only
\* variables of the coefficient network, the NLL step only variables outside
\* it; the two updated sets are disjoint and together hold every trainable
\* variable.
C4_DisjointCoveringUpdates ==
    MiniBatchRan =>
       /\ UpdatedBy("reinforce") \subseteq CoefficientNetWeights
       /\ UpdatedBy("nll") \cap CoefficientNetWeights = {}
       /\ UpdatedBy("reinforce") \cap UpdatedBy("nll") = {}
       /\ TrainableVariables \subseteq (UpdatedBy("reinforce") \cup UpdatedBy("nll"))

\* C5: training returns a loss history with one entry per mini-batch processed
\* without a NaN loss, in order, each the mini-batch's (NLL + REINFORCE) /
\* batch_size: epochs * floor(N / batch_size) entries in a NaN-free run with
\* ratio >= 3.
C5_LossHistory ==
    (/\ loopFn = "training" /\ trPc \in {"returned", "raised"}
     /\ batch_size >= 1 /\ ratio >= 3 /\ nUbatch >= nYbatch) =>
       /\ trPc = "returned"
       /\ Training_Loss = [k \in 1..Len(totals) |-> [num |-> totals[k], den |-> batch_size]]
       /\ ~nanSeen => Len(Training_Loss) = epochs * (nTarget \div batch_size)

\* C6: in training and in testing, once a loss computed for mini-batch i is
\* NaN no mini-batch of a greater index is processed in that loop, and no
\* exception follows: training goes on with the next epoch.
C6_NaNStopsLoop ==
    /\ (loopFn = "testing") =>
          \A k \in 1..Len(Test_Loss) : Test_Loss[k].nan => Len(Test_Loss) = k
    /\ (loopFn = "training" /\ mbTrace # <<>> /\ reinforce_loss.nan) =>
          trPc # "raised"

\* C10: every mini-batch of training that is not aborted applies exactly one
\* REINFORCE update and then exactly one NLL update, the REINFORCE update
\* before the second forward pass.
C10_ReinforceThenNll ==
    MiniBatchRan =>
       [k \in 1..Len(mbTrace) |-> mbTrace[k].step] = <<"forward", "reinforce", "forward", "nll">>

====
